---- MODULE Spec2Model ----
(***************************************************************************)
(* Model of the reasoning-step tree (o1_replication_journey/step.py), the  *)
(* message model (o1_replication_journey/conversation.py) and the pure     *)
(* tree functions of the visualizer (visualize_tree.py).                   *)
(*                                                                         *)
(* Nodes are numbered in construction order: 0 is the Root, 1..n are the   *)
(* ReasoningSteps.  A Message is a record [role, content, name, weight]    *)
(* with its class in the field type; a Conversation is the sequence of its *)
(* messages.  Each specification below drives one part of the program and  *)
(* leaves the variables of the other parts at their idle values.           *)
(***************************************************************************)
EXTENDS Integers, Sequences, FiniteSets, TLC

VARIABLES
    base_conversation,  \* Root.base_conversation
    parent_step,        \* ReasoningStep.parent_step, indexed by step
    step_message,       \* ReasoningStep.step_message, indexed by step
    aborted,            \* ReasoningStep.aborted, indexed by step
    improved_step,      \* ReasoningStep.improved_step, indexed by step
    child_steps,        \* Step.child_steps, indexed by node (0 = Root)
    step_score,         \* ReasoningStep.score, indexed by step
    min_max,            \* result of get_min_max_scores(tree) in main
    content,            \* ScoreMessage.content
    score_cache,        \* the cached_property ScoreMessage.score
    terminal_message_check,  \* ReasoningStep.terminal_message_check
    is_final_cache,     \* the cached_property TerminalCheckMessage.is_final
    heap,               \* the list a priority queue of steps keeps
    messages,           \* Conversation.messages
    mmd,                \* result of Conversation.to_mmd
    reloaded,           \* result of Conversation.from_mmd
    returned            \* value the last call returned

treeVars == <<base_conversation, parent_step, step_message, aborted,
              improved_step, child_steps, step_score, min_max>>

scoreVars == <<content, score_cache>>

terminalVars == <<terminal_message_check, is_final_cache>>

heapVars == <<heap>>

mmdVars == <<messages, mmd, reloaded>>

vars == <<treeVars, scoreVars, terminalVars, heapVars, mmdVars, returned>>

\* Values of the variables a specification does not use.
ScoresIdle == step_score = <<>> /\ min_max = <<>>

TreeIdle ==
    /\ ScoresIdle
    /\ base_conversation = <<>>
    /\ parent_step = <<>>
    /\ step_message = <<>>
    /\ aborted = <<>>
    /\ improved_step = <<>>
    /\ child_steps = <<>>

ScoreIdle == content = <<>> /\ score_cache = <<>>

TerminalIdle == terminal_message_check = <<>> /\ is_final_cache = <<>>

HeapIdle == heap = <<>>

MmdIdle == messages = <<>> /\ mmd = <<>> /\ reloaded = <<>>

NotTree == <<scoreVars, terminalVars, heapVars, mmdVars, returned>>

NotTreeIdle == ScoreIdle /\ TerminalIdle /\ HeapIdle /\ MmdIdle /\ returned = <<>>

-----------------------------------------------------------------------------
(* Bounds *)

\* Most ReasoningSteps constructed under SpecTree.
MaxSteps == 3

\* Most ReasoningSteps constructed under SpecLifecycle.
MaxLifecycleSteps == 2

\* ReasoningSteps of a loaded tree under SpecMinMax.
LoadedSteps == 4

\* Longest content of a ScoreMessage, counted in the tokens of ScoreTokens.
MaxContent == 5

\* Most steps in the priority queue.
MaxHeap == 4

\* Longest content of a TerminalCheckMessage, counted in TerminalTokens.
MaxTerminalContent == 4

\* Most messages of the Conversation that is dumped and loaded again.
MaxMessages == 2

-----------------------------------------------------------------------------
(* Messages and conversations *)

\* Message.name default
NoName == "<None>"

\* Message.weight default
DefaultWeight == 1

\* Message.user / Message.system / Message.assistant: cls(role=..., content=...)
Message(role, text) ==
    [type |-> "Message", role |-> role, content |-> text,
     name |-> NoName, weight |-> DefaultWeight]

STEPPER_MESSAGE == Message("user", "next")

\* Conversation.__add__ with a Conversation on the right
ConversationAdd(a, b) == a \o b

\* list[::-1]
RECURSIVE Reversed(_)
Reversed(s) == IF s = <<>> THEN <<>> ELSE Append(Reversed(Tail(s)), Head(s))

\* Seeded fault: list[:-1]
DropLast(s) == IF s = <<>> THEN <<>> ELSE SubSeq(s, 1, Len(s) - 1)

\* list[1:]
DropFirst(s) == IF s = <<>> THEN <<>> ELSE Tail(s)

-----------------------------------------------------------------------------
(* The step tree *)

RootId == 0

\* improved_step = None
NoStep == -1

IsRoot(node) == node = RootId

Steps == DOMAIN parent_step

Nodes == {RootId} \cup Steps

\* Step messages are what the generator produced for a step.
StepMessages == {Message("assistant", "a"), Message("assistant", "b")}

BaseConversations ==
    { <<Message("system", "sys")>>,
      <<Message("system", "sys"), Message("user", "q")>> }

\* Seeded fault: the loop appends the step message before the stepper message.
RECURSIVE SteppedWalkStepFirst(_, _)
SteppedWalkStepFirst(node, reversed_messages) ==
    IF IsRoot(node)
    THEN <<node, reversed_messages>>
    ELSE SteppedWalkStepFirst(parent_step[node],
                              Append(Append(reversed_messages, step_message[node]),
                                     STEPPER_MESSAGE))

\* The while loop of ReasoningStep.to_stepped_conversation: returns the node
\* the loop stops at and reversed_messages.
RECURSIVE SteppedWalk(_, _)
SteppedWalk(node, reversed_messages) ==
    IF IsRoot(node)
    THEN <<node, reversed_messages>>
    ELSE SteppedWalk(parent_step[node],
                     Append(Append(reversed_messages, STEPPER_MESSAGE),
                            step_message[node]))

to_stepped_conversation(self, with_next_stepper) ==
    IF IsRoot(self)
    THEN base_conversation
    ELSE LET w == SteppedWalk(self, <<>>)
             reversed_messages ==
                 IF ~with_next_stepper THEN DropFirst(w[2]) ELSE w[2]
         IN  ConversationAdd(base_conversation, Reversed(reversed_messages))

\* Seeded fault: the loop collects the stepper messages as well.
RECURSIVE TrajectoryWalkWithStepper(_, _)
TrajectoryWalkWithStepper(node, reversed_messages) ==
    IF IsRoot(node)
    THEN <<node, reversed_messages>>
    ELSE TrajectoryWalkWithStepper(
             parent_step[node],
             Append(Append(reversed_messages, STEPPER_MESSAGE),
                    step_message[node]))

\* The while loop of ReasoningStep.to_step_trajectory.
RECURSIVE TrajectoryWalk(_, _)
TrajectoryWalk(node, reversed_messages) ==
    IF IsRoot(node)
    THEN <<node, reversed_messages>>
    ELSE TrajectoryWalk(parent_step[node],
                        Append(reversed_messages, step_message[node]))

to_step_trajectory(self) ==
    IF IsRoot(self)
    THEN [base_conversation |-> base_conversation, step_messages |-> <<>>]
    ELSE LET w == TrajectoryWalk(self, <<>>)
         IN  [base_conversation |-> base_conversation,
              step_messages |-> Reversed(w[2])]

-----------------------------------------------------------------------------
(* visualize_tree.py: pure functions over a tree *)

\* Root.score / ReasoningStep.score
Score(node) == IF IsRoot(node) THEN 0 ELSE step_score[node]

\* hasattr(step, "aborted"): ReasoningStep declares the field, Root does not.
HasAborted(node) == ~IsRoot(node)

\* step.is_terminal on a node without "aborted": no class defines it.
AttributeError == "AttributeError"

\* Seeded fault: the aborted flag of a node with children is not looked at.
RECURSIVE has_accepted_leafs_any_leaf(_)
has_accepted_leafs_any_leaf(step) ==
    IF child_steps[step] # <<>>
    THEN \E i \in 1..Len(child_steps[step]) :
             has_accepted_leafs_any_leaf(child_steps[step][i])
    ELSE IF HasAborted(step)
         THEN ~aborted[step]
         ELSE AttributeError

RECURSIVE has_accepted_leafs(_)
has_accepted_leafs(step) ==
    IF child_steps[step] # <<>>
    THEN IF HasAborted(step) /\ aborted[step]
         THEN FALSE
         ELSE \E i \in 1..Len(child_steps[step]) :
                  has_accepted_leafs(child_steps[step][i])
    ELSE IF HasAborted(step)
         THEN ~aborted[step]
         ELSE AttributeError

Min(a, b) == IF a <= b THEN a ELSE b

Max(a, b) == IF a >= b THEN a ELSE b

\* min(...) / max(...) over the zipped child results
RECURSIVE MinOf(_)
MinOf(s) == IF Len(s) = 1 THEN s[1] ELSE Min(s[1], MinOf(Tail(s)))

RECURSIVE MaxOf(_)
MaxOf(s) == IF Len(s) = 1 THEN s[1] ELSE Max(s[1], MaxOf(Tail(s)))

\* Seeded fault: the score of a node with children is left out of the range.
RECURSIVE get_min_max_scores_children_only(_)
get_min_max_scores_children_only(tree) ==
    IF child_steps[tree] # <<>>
    THEN LET res == [i \in 1..Len(child_steps[tree]) |->
                        get_min_max_scores_children_only(child_steps[tree][i])]
         IN  <<MinOf([i \in DOMAIN res |-> res[i][1]]),
               MaxOf([i \in DOMAIN res |-> res[i][2]])>>
    ELSE <<Score(tree), Score(tree)>>

RECURSIVE get_min_max_scores(_)
get_min_max_scores(tree) ==
    IF child_steps[tree] # <<>>
    THEN LET res == [i \in 1..Len(child_steps[tree]) |->
                        get_min_max_scores(child_steps[tree][i])]
             child_min_score == MinOf([i \in DOMAIN res |-> res[i][1]])
             child_max_score == MaxOf([i \in DOMAIN res |-> res[i][2]])
         IN  <<Min(Score(tree), child_min_score),
               Max(Score(tree), child_max_score)>>
    ELSE <<Score(tree), Score(tree)>>

\* The edge create_flow_elements builds from step to a child, child_id being
\* the id of the first node of the child's elements: the green 4px style is
\* the amplified one.
FlowEdge(step, child_id, child) ==
    [source |-> step, target |-> child_id, amplified |-> has_accepted_leafs(child)]

\* create_flow_elements: the nodes (by id; labels and colours are left out)
\* and the edges it returns, in its order: the node of the step, then for
\* every child the edge to the child followed by the child's own elements.
RECURSIVE create_flow_elements(_)
RECURSIVE FlowChildren(_, _)
create_flow_elements(step) ==
    LET below == FlowChildren(step, child_steps[step])
    IN  [nodes |-> <<step>> \o below.nodes, edges |-> below.edges]
FlowChildren(step, children) ==
    IF children = <<>>
    THEN [nodes |-> <<>>, edges |-> <<>>]
    ELSE LET child == create_flow_elements(Head(children))
             rest == FlowChildren(step, Tail(children))
         IN  [nodes |-> child.nodes \o rest.nodes,
              edges |-> <<FlowEdge(step, child.nodes[1], Head(children))>>
                        \o child.edges \o rest.edges]

-----------------------------------------------------------------------------
(* Life cycle of the tree: the search constructs steps and mutates them *)

InitTree ==
    /\ base_conversation \in BaseConversations
    /\ parent_step = <<>>
    /\ step_message = <<>>
    /\ aborted = <<>>
    /\ improved_step = <<>>
    /\ child_steps = [n \in {RootId} |-> <<>>]
    /\ ScoresIdle
    /\ NotTreeIdle

\* Seeded fault: the step under construction may be named as its own parent.
ParentChoicesWithSelf == Nodes \cup {Len(parent_step) + 1}

\* The objects a constructor call can name as parent_step: those that exist.
ParentChoices == Nodes

\* ReasoningStep(parent_step=p, step_message=m, ...): aborted, improved_step
\* and child_steps take their defaults.
NewStep(p, m) ==
    /\ p \in ParentChoices
    /\ parent_step' = Append(parent_step, p)
    /\ step_message' = Append(step_message, m)
    /\ aborted' = Append(aborted, TRUE)
    /\ improved_step' = Append(improved_step, NoStep)
    /\ child_steps' = [n \in Nodes \cup {Len(parent_step) + 1} |->
                          IF n \in Nodes THEN child_steps[n] ELSE <<>>]
    /\ UNCHANGED <<base_conversation, step_score, min_max, NotTree>>

InSeq(x, s) == \E i \in 1..Len(s) : s[i] = x

\* parent.child_steps.append(child): the search files a step under the step
\* it was generated from.
AppendChild(p, c) ==
    /\ c \in Steps
    /\ parent_step[c] = p
    /\ ~InSeq(c, child_steps[p])
    /\ child_steps' = [child_steps EXCEPT ![p] = Append(@, c)]
    /\ UNCHANGED <<base_conversation, parent_step, step_message, aborted,
                   improved_step, step_score, min_max, NotTree>>

\* step.aborted = b
SetAborted(s, b) ==
    /\ s \in Steps
    /\ aborted[s] # b
    /\ aborted' = [aborted EXCEPT ![s] = b]
    /\ UNCHANGED <<base_conversation, parent_step, step_message,
                   improved_step, child_steps, step_score, min_max, NotTree>>

\* step.improved_step = t
SetImproved(s, t) ==
    /\ s \in Steps
    /\ t \in Steps \cup {NoStep}
    /\ improved_step[s] # t
    /\ improved_step' = [improved_step EXCEPT ![s] = t]
    /\ UNCHANGED <<base_conversation, parent_step, step_message, aborted,
                   child_steps, step_score, min_max, NotTree>>

\* The search as far as the traversals and the edge styles read the tree:
\* steps are constructed, filed under their parents and accepted or aborted.
NextTree ==
    \/ /\ Len(parent_step) < MaxSteps
       /\ \E p \in ParentChoices, m \in StepMessages : NewStep(p, m)
    \/ \E p \in Nodes, c \in Steps : AppendChild(p, c)
    \/ \E s \in Steps, b \in BOOLEAN : SetAborted(s, b)

SpecTree == InitTree /\ [][NextTree]_vars

\* The search with every mutation of a constructed step.
NextLifecycle ==
    \/ /\ Len(parent_step) < MaxLifecycleSteps
       /\ \E p \in ParentChoices, m \in StepMessages : NewStep(p, m)
    \/ \E p \in Nodes, c \in Steps : AppendChild(p, c)
    \/ \E s \in Steps, b \in BOOLEAN : SetAborted(s, b)
    \/ \E s \in Steps, t \in Steps \cup {NoStep} : SetImproved(s, t)

SpecLifecycle == InitTree /\ [][NextLifecycle]_vars

-----------------------------------------------------------------------------
(* The visualizer's main on a loaded tree *)

\* The scores of the steps of a loaded tree.
TreeScores == {1, 2, 5, 9}

\* The members of a set of nodes in ascending order.
RECURSIVE Ascending(_)
Ascending(S) ==
    IF S = {}
    THEN <<>>
    ELSE LET least == CHOOSE x \in S : \A y \in S : x <= y
         IN  <<least>> \o Ascending(S \ {least})

\* load_reasoning_tree: a pickled tree with every step filed under its
\* parent; the steps are numbered so that a parent comes before its children.
InitMinMax ==
    /\ base_conversation = <<Message("system", "sys")>>
    /\ parent_step \in {ps \in [1..LoadedSteps -> 0..(LoadedSteps - 1)] :
                           \A i \in 1..LoadedSteps : ps[i] < i}
    /\ step_score \in [1..LoadedSteps -> TreeScores]
    /\ step_message = [i \in 1..LoadedSteps |-> Message("assistant", "a")]
    /\ aborted = [i \in 1..LoadedSteps |-> TRUE]
    /\ improved_step = [i \in 1..LoadedSteps |-> NoStep]
    /\ child_steps = [n \in 0..LoadedSteps |->
                         Ascending({c \in 1..LoadedSteps : parent_step[c] = n})]
    /\ min_max = <<>>
    /\ NotTreeIdle

\* main: min_score, max_score = get_min_max_scores(tree), tree the loaded Root
MainMinMax ==
    /\ min_max = <<>>
    /\ min_max' = get_min_max_scores(RootId)
    /\ UNCHANGED <<base_conversation, parent_step, step_message, aborted,
                   improved_step, child_steps, step_score, NotTree>>

NextMinMax == MainMinMax

SpecMinMax == InitMinMax /\ [][NextMinMax]_vars

-----------------------------------------------------------------------------
(* Properties of the step tree *)

\* The node k parent links above n (the Root is its own end of the chain).
RECURSIVE Ancestor(_, _)
Ancestor(n, k) ==
    IF k = 0
    THEN n
    ELSE LET a == Ancestor(n, k - 1)
         IN  IF IsRoot(a) THEN a ELSE parent_step[a]

ReachesRoot(n, k) ==
    /\ IsRoot(Ancestor(n, k))
    /\ \A j \in 0..(k - 1) : ~IsRoot(Ancestor(n, j))
    /\ \A i, j \in 0..k : i # j => Ancestor(n, i) # Ancestor(n, j)

\* Number of ReasoningSteps on the parent chain of n, n included.
Depth(n) ==
    CHOOSE k \in 0..Cardinality(Nodes) :
        /\ IsRoot(Ancestor(n, k))
        /\ k = 0 \/ ~IsRoot(Ancestor(n, k - 1))

\* s1..sd: the step messages on the path from the Root down to n.
PathMessages(n) ==
    LET d == Depth(n)
    IN  [i \in 1..d |-> step_message[Ancestor(n, d - i)]]

RECURSIVE StepperBeforeEach(_)
StepperBeforeEach(msgs) ==
    IF msgs = <<>>
    THEN <<>>
    ELSE <<STEPPER_MESSAGE, Head(msgs)>> \o StepperBeforeEach(Tail(msgs))

RECURSIVE StepperAfterEach(_)
StepperAfterEach(msgs) ==
    IF msgs = <<>>
    THEN <<>>
    ELSE <<Head(msgs), STEPPER_MESSAGE>> \o StepperAfterEach(Tail(msgs))

RECURSIVE StepperBetween(_)
StepperBetween(msgs) ==
    IF Len(msgs) <= 1
    THEN msgs
    ELSE <<Head(msgs), STEPPER_MESSAGE>> \o StepperBetween(Tail(msgs))

\* C1 as stated: with_next_stepper=True gives the base conversation followed
\* by a stepper message before each step message, base ++ [stepper, s1, ...,
\* stepper, sd].
C1_StepperBeforeEachStep ==
    \A n \in Steps :
        to_stepped_conversation(n, TRUE)
            = base_conversation \o StepperBeforeEach(PathMessages(n))

\* C1 amended: with_next_stepper=True gives the base conversation followed by
\* each step message in root-to-leaf order with a stepper message after it,
\* base ++ [s1, stepper, ..., sd, stepper].
C1_StepperAfterEachStep ==
    \A n \in Steps :
        to_stepped_conversation(n, TRUE)
            = base_conversation \o StepperAfterEach(PathMessages(n))

C1_Witness ==
    \E n \in Steps :
        /\ Depth(n) = 3
        /\ Len(to_stepped_conversation(n, TRUE)) = Len(base_conversation) + 6
        /\ PathMessages(n)[1] # PathMessages(n)[3]

\* C2: with_next_stepper=False gives the base conversation followed by the
\* step messages s1..sd in root-to-leaf order with one stepper message
\* between each pair of consecutive step messages (d-1 in all), none before
\* s1 and none after sd.
C2_StepperBetweenSteps ==
    \A n \in Steps :
        LET c == to_stepped_conversation(n, FALSE)
            path == PathMessages(n)
        IN  /\ c = base_conversation \o StepperBetween(path)
            /\ Len(c) = Len(base_conversation) + 2 * Len(path) - 1

C2_Witness ==
    \E n \in Steps :
        /\ Depth(n) = 3
        /\ to_stepped_conversation(n, FALSE)[Len(base_conversation) + 2]
               = STEPPER_MESSAGE
        /\ PathMessages(n)[1] # PathMessages(n)[2]

\* C3: to_step_trajectory of a node at depth d (0 for the Root) pairs the
\* Root's base conversation with exactly d step messages, those of the path
\* in root-to-leaf order, no stepper message among them.
C3_TrajectoryIsPath ==
    \A n \in Nodes :
        LET t == to_step_trajectory(n)
        IN  /\ t.base_conversation = base_conversation
            /\ Len(t.step_messages) = Depth(n)
            /\ t.step_messages = PathMessages(n)
            /\ ~InSeq(STEPPER_MESSAGE, t.step_messages)

C3_Witness ==
    \E n \in Steps :
        /\ Depth(n) = 3
        /\ Len(to_step_trajectory(n).step_messages) = 3
        /\ PathMessages(n)[2] # PathMessages(n)[3]

\* C8: whatever steps were constructed and however child_steps, improved_step
\* and aborted were mutated, the parent_step chain of every ReasoningStep
\* reaches the Root within as many links as there are steps, visiting no node
\* twice, so the walks of to_stepped_conversation and to_step_trajectory end.
C8_ParentChainEndsAtRoot ==
    \A n \in Steps : \E k \in 1..Cardinality(Steps) : ReachesRoot(n, k)

C8_Witness ==
    /\ \E n \in Steps : ReachesRoot(n, 2)
    /\ \E n \in Steps : improved_step[n] # NoStep
    /\ \E n \in Steps : ~aborted[n]
    /\ \E n \in Steps : child_steps[n] # <<>>

\* A leaf l that the child_steps lists connect to c.
LeafBelow(c, l, k) ==
    /\ l \in Steps
    /\ child_steps[l] = <<>>
    /\ Ancestor(l, k) = c
    /\ \A j \in 0..(k - 1) :
           /\ ~IsRoot(Ancestor(l, j))
           /\ InSeq(Ancestor(l, j), child_steps[Ancestor(l, j + 1)])

\* C9 as stated: an edge is amplified exactly when the subtree under its
\* child holds a leaf that is not aborted, whatever the aborted flags of the
\* internal nodes.
C9_AmplifiedIffAcceptedLeaf ==
    LET edges == create_flow_elements(RootId).edges
    IN  \A e \in 1..Len(edges) :
            edges[e].amplified
                <=> \E l \in Steps, k \in 0..Cardinality(Steps) :
                        /\ LeafBelow(edges[e].target, l, k)
                        /\ ~aborted[l]

\* C9 amended: an edge is amplified exactly when the subtree under its child
\* holds a leaf that is not aborted and no node on the path from the child
\* down to that leaf (both included) is aborted.
C9_AmplifiedIffUnabortedPath ==
    LET edges == create_flow_elements(RootId).edges
    IN  \A e \in 1..Len(edges) :
            edges[e].amplified
                <=> \E l \in Steps, k \in 0..Cardinality(Steps) :
                        /\ LeafBelow(edges[e].target, l, k)
                        /\ \A j \in 0..k : ~aborted[Ancestor(l, j)]

C9_Witness ==
    LET edges == create_flow_elements(RootId).edges
    IN  /\ Len(edges) = 3
        /\ \E e \in 1..Len(edges) :
               /\ edges[e].amplified
               /\ child_steps[edges[e].target] # <<>>
        /\ \E e \in 1..Len(edges) :
               /\ ~edges[e].amplified
               /\ child_steps[edges[e].target] = <<>>

\* The loaded tree has three levels: the Root, its children and their children.
ThreeLevels ==
    /\ \A n \in Steps : Depth(n) <= 2
    /\ \E n \in Steps : Depth(n) = 2

\* The steps carry the scores 5, 2, 9 and 1.
ScoresOfTheExample == {step_score[n] : n \in Steps} = {5, 2, 9, 1}

\* C10 as stated: get_min_max_scores on the loaded Root of the 3-level tree
\* with step scores 5, 2, 9, 1 yields min = 1 and max = 9.
C10_MinIsOne ==
    (min_max # <<>> /\ ThreeLevels /\ ScoresOfTheExample) => min_max = <<1, 9>>

\* C10 amended: get_min_max_scores on the loaded Root of the 3-level tree with
\* step scores 5, 2, 9, 1 yields min = 0, the Root's own score, and max = 9.
C10_MinIsRootScore ==
    (min_max # <<>> /\ ThreeLevels /\ ScoresOfTheExample) => min_max = <<0, 9>>

C10_Witness ==
    /\ min_max = <<0, 9>>
    /\ ThreeLevels
    /\ ScoresOfTheExample
    /\ Cardinality(Steps) = 4

-----------------------------------------------------------------------------
(* ScoreMessage.score *)

\* A content is a sequence of tokens: the marker, the newline and single
\* characters ("nan" is the one word besides numerals that float() accepts
\* among them).
TotalScoreMarker == "Total Score:"

Newline == "\n"

Space == " "

Digits == {"5", "7"}

ScoreTokens == {TotalScoreMarker, Newline, Space, ".", "-", "x", "nan"} \cup Digits

ScoreContents == UNION {[1..n -> ScoreTokens] : n \in 0..MaxContent}

\* A float: NaN, or the number v / 10^MaxContent (every numeral of a content
\* has fewer than MaxContent decimals).
RECURSIVE Pow10(_)
Pow10(n) == IF n = 0 THEN 1 ELSE 10 * Pow10(n - 1)

Number(n) == [nan |-> FALSE, v |-> n * Pow10(MaxContent)]

NaN == [nan |-> TRUE, v |-> 0]

\* The sentinel -1.0
ScoreSentinel == Number(-1)

\* str.split(sep): the pieces between the separators, empty ones included.
RECURSIVE Split(_, _)
Split(str, sep) ==
    IF str = <<>>
    THEN << <<>> >>
    ELSE LET rest == Split(Tail(str), sep)
         IN  IF Head(str) = sep
             THEN << <<>> >> \o rest
             ELSE << <<Head(str)>> \o Head(rest) >> \o Tail(rest)

\* str.strip()
RECURSIVE Strip(_)
Strip(str) ==
    IF str = <<>> THEN <<>>
    ELSE IF Head(str) = Space THEN Strip(Tail(str))
    ELSE IF str[Len(str)] = Space THEN Strip(SubSeq(str, 1, Len(str) - 1))
    ELSE str

DigitValue(d) == IF d = "5" THEN 5 ELSE 7

RECURSIVE DigitsValue(_)
DigitsValue(ds) ==
    IF ds = <<>>
    THEN 0
    ELSE 10 * DigitsValue(SubSeq(ds, 1, Len(ds) - 1)) + DigitValue(ds[Len(ds)])

\* float(str) on a stripped string: an optional sign, then "nan" or a numeral
\* with at least one digit and at most one point; anything else raises
\* ValueError (ok = FALSE).
float(str) ==
    LET negative == str # <<>> /\ Head(str) = "-"
        body == IF negative THEN Tail(str) ELSE str
        points == {i \in 1..Len(body) : body[i] = "."}
        numeral == /\ \A i \in 1..Len(body) : body[i] \in Digits \cup {"."}
                   /\ \E i \in 1..Len(body) : body[i] \in Digits
                   /\ Cardinality(points) <= 1
        point == IF points = {} THEN Len(body) + 1 ELSE CHOOSE i \in points : TRUE
        whole == SubSeq(body, 1, point - 1)
        decimals == SubSeq(body, point + 1, Len(body))
        magnitude == DigitsValue(whole) * Pow10(MaxContent)
                     + DigitsValue(decimals) * Pow10(MaxContent - Len(decimals))
    IN  IF body = <<"nan">> THEN [ok |-> TRUE, value |-> NaN]
        ELSE IF numeral
        THEN [ok |-> TRUE,
              value |-> [nan |-> FALSE,
                         v |-> IF negative THEN 0 - magnitude ELSE magnitude]]
        ELSE [ok |-> FALSE, value |-> NaN]

HasMarker(line) == InSeq(TotalScoreMarker, line)

\* The body of the try block: the exception it raises ("none" if it ends) and
\* the float it computes.
ScoreTry(text) ==
    LET marked == SelectSeq(Split(text, Newline), HasMarker)
    IN  IF marked = <<>>
        THEN [raised |-> "IndexError", value |-> NaN]
        ELSE LET pieces == Split(marked[Len(marked)], TotalScoreMarker)
             IN  IF Len(pieces) < 2
                 THEN [raised |-> "IndexError", value |-> NaN]
                 ELSE LET f == float(Strip(pieces[2]))
                      IN  IF f.ok
                          THEN [raised |-> "none", value |-> f.value]
                          ELSE [raised |-> "ValueError", value |-> NaN]

\* except (ValueError, IndexError)
ScoreCaught == {"ValueError", "IndexError"}

\* ScoreMessage.score: what the caller gets, a float or an exception.
score(text) ==
    LET try == ScoreTry(text)
    IN  IF try.raised \in ScoreCaught
        THEN [raised |-> "none", value |-> ScoreSentinel]
        ELSE try

InitScore ==
    /\ content \in ScoreContents
    /\ score_cache = <<>>
    /\ TreeIdle /\ TerminalIdle /\ HeapIdle /\ MmdIdle
    /\ returned = <<>>

\* The first read of the cached property computes and stores the score.
ScoreGet ==
    /\ score_cache = <<>>
    /\ score_cache' = <<score(content)>>
    /\ returned' = <<score(content)>>
    /\ UNCHANGED <<content, treeVars, terminalVars, heapVars, mmdVars>>

NextScore == ScoreGet

SpecScore == InitScore /\ [][NextScore]_vars

\* The part of a line after its first marker, and after its last one.
AfterFirstMarker(line) ==
    LET at == CHOOSE i \in 1..Len(line) :
                  /\ line[i] = TotalScoreMarker
                  /\ \A j \in 1..(i - 1) : line[j] # TotalScoreMarker
    IN  SubSeq(line, at + 1, Len(line))

AfterLastMarker(line) ==
    LET at == CHOOSE i \in 1..Len(line) :
                  /\ line[i] = TotalScoreMarker
                  /\ \A j \in (i + 1)..Len(line) : line[j] # TotalScoreMarker
    IN  SubSeq(line, at + 1, Len(line))

\* The number a text spells, the sentinel if it spells none.
NumberOrSentinel(text) ==
    LET f == float(Strip(text))
    IN  IF f.ok /\ ~f.value.nan THEN f.value ELSE ScoreSentinel

\* C5: the score is the number after the marker on the last line that holds
\* the marker (the text after the line's first marker, or after its last one
\* when the line holds several), the sentinel -1.0 when no line holds the
\* marker or that text is not a number, and no exception reaches the caller.
C5_LastMarkerLineOrSentinel ==
    score_cache # <<>> =>
        LET marked == SelectSeq(Split(content, Newline), HasMarker)
            last == marked[Len(marked)]
        IN  /\ score_cache[1].raised = "none"
            /\ IF marked = <<>>
               THEN score_cache[1].value = ScoreSentinel
               ELSE score_cache[1].value
                        \in {NumberOrSentinel(AfterFirstMarker(last)),
                             NumberOrSentinel(AfterLastMarker(last))}

-----------------------------------------------------------------------------
(* A priority queue of steps: heapq over Step.__lt__ *)

\* float > float: false when either side is NaN.
FloatGt(a, b) == ~a.nan /\ ~b.nan /\ a.v > b.v

\* float >= float
FloatGe(a, b) == ~a.nan /\ ~b.nan /\ a.v >= b.v

\* Step.__lt__ (ScoreMessage.__lt__ has the same body): a step is its score.
Step_lt(self, other) == FloatGt(self, other)

\* heap[pos], positions counted from 0
At(h, pos) == h[pos + 1]

\* heap[pos] = item
Put(h, pos, item) == [h EXCEPT ![pos + 1] = item]

\* heapq._siftdown, its loop unrolled into a recursion on pos
RECURSIVE SiftdownLoop(_, _, _, _)
SiftdownLoop(h, startpos, pos, newitem) ==
    IF pos > startpos
    THEN LET parentpos == (pos - 1) \div 2
             parent == At(h, parentpos)
         IN  IF Step_lt(newitem, parent)
             THEN SiftdownLoop(Put(h, pos, parent), startpos, parentpos, newitem)
             ELSE Put(h, pos, newitem)
    ELSE Put(h, pos, newitem)

siftdown(h, startpos, pos) == SiftdownLoop(h, startpos, pos, At(h, pos))

\* heapq._siftup: the smaller child is moved up until a leaf is reached, then
\* the item is sifted down from there
RECURSIVE SiftupLoop(_, _, _, _)
SiftupLoop(h, startpos, pos, newitem) ==
    LET endpos == Len(h)
        childpos == 2 * pos + 1
        rightpos == childpos + 1
        chosen == IF rightpos < endpos
                     /\ ~Step_lt(At(h, childpos), At(h, rightpos))
                  THEN rightpos
                  ELSE childpos
    IN  IF childpos < endpos
        THEN SiftupLoop(Put(h, pos, At(h, chosen)), startpos, chosen, newitem)
        ELSE siftdown(Put(h, pos, newitem), startpos, pos)

siftup(h, pos) == SiftupLoop(h, pos, pos, At(h, pos))

\* heapq.heappush
heappush(h, item) == siftdown(Append(h, item), 0, Len(h))

\* heapq.heappop: the item returned and the heap left
heappop(h) ==
    LET lastelt == h[Len(h)]
        rest == SubSeq(h, 1, Len(h) - 1)
    IN  IF rest # <<>>
        THEN [item |-> rest[1], heap |-> siftup(Put(rest, 0, lastelt), 0)]
        ELSE [item |-> lastelt, heap |-> rest]

\* Scores of the steps queued: the sentinel, proper scores, and the NaN that
\* score yields for the content "Total Score: nan".
HeapScores == {ScoreSentinel, Number(3), Number(8), Number(9), NaN}

InitHeap ==
    /\ heap = <<>>
    /\ returned = <<>>
    /\ TreeIdle /\ ScoreIdle /\ TerminalIdle /\ MmdIdle

HeapPush(item) ==
    /\ Len(heap) < MaxHeap
    /\ heap' = heappush(heap, item)
    /\ returned' = <<>>
    /\ UNCHANGED <<treeVars, scoreVars, terminalVars, mmdVars>>

HeapPop ==
    /\ heap # <<>>
    /\ heap' = heappop(heap).heap
    /\ returned' = <<heappop(heap).item>>
    /\ UNCHANGED <<treeVars, scoreVars, terminalVars, mmdVars>>

NextHeap ==
    \/ \E item \in HeapScores : HeapPush(item)
    \/ HeapPop

SpecHeap == InitHeap /\ [][NextHeap]_vars

\* C4: after any pushes and pops, the step a pop returns has a score greater
\* than or equal to the score of every step still in the queue.
C4_PopReturnsHighestScore ==
    returned # <<>> =>
        \A i \in 1..Len(heap) : FloatGe(returned[1], heap[i])

-----------------------------------------------------------------------------
(* TerminalCheckMessage.is_final and ReasoningStep.is_terminal_step *)

\* A content is a sequence of tokens: the two halves of the verdict in several
\* spellings, and a character that belongs to neither.
TerminalTokens ==
    {"TERMINAL: ", "terminal: ", "Terminal: ", "YES", "yes", "NO", "no", "x"}

TerminalContents == UNION {[1..n -> TerminalTokens] : n \in 0..MaxTerminalContent}

\* str.upper(), token by token
UpperToken(t) ==
    CASE t \in {"TERMINAL: ", "terminal: ", "Terminal: "} -> "TERMINAL: "
      [] t \in {"YES", "yes"} -> "YES"
      [] t \in {"NO", "no"} -> "NO"
      [] OTHER -> "X"

upper(str) == [i \in 1..Len(str) |-> UpperToken(str[i])]

\* needle in str
Contains(str, needle) ==
    \E i \in 0..(Len(str) - Len(needle)) :
        \A j \in 1..Len(needle) : str[i + j] = needle[j]

\* Seeded fault: the NO verdict is looked for first.
is_final_no_first(text) ==
    IF Contains(upper(text), <<"TERMINAL: ", "NO">>) THEN "False"
    ELSE IF Contains(upper(text), <<"TERMINAL: ", "YES">>) THEN "True"
    ELSE "None"

\* TerminalCheckMessage.is_final: True, False, or None when the function
\* falls off its end; upper() and "in" raise nothing on a str.
is_final(text) ==
    IF Contains(upper(text), <<"TERMINAL: ", "YES">>) THEN "True"
    ELSE IF Contains(upper(text), <<"TERMINAL: ", "NO">>) THEN "False"
    ELSE "None"

\* A read of the cached property: the stored value once there is one.
IsFinalRead ==
    IF is_final_cache # <<>>
    THEN is_final_cache[1]
    ELSE is_final(terminal_message_check[1])

InitTerminal ==
    /\ terminal_message_check \in {<<>>} \cup {<<c>> : c \in TerminalContents}
    /\ is_final_cache = <<>>
    /\ returned = <<>>
    /\ TreeIdle /\ ScoreIdle /\ HeapIdle /\ MmdIdle

\* step.terminal_message_check.is_final
IsFinalGet ==
    /\ terminal_message_check # <<>>
    /\ is_final_cache' = <<IsFinalRead>>
    /\ returned' = <<IsFinalRead>>
    /\ UNCHANGED <<terminal_message_check, treeVars, scoreVars, heapVars, mmdVars>>

\* ReasoningStep.is_terminal_step
IsTerminalStep ==
    /\ IF terminal_message_check = <<>>
       THEN returned' = <<"None">> /\ UNCHANGED is_final_cache
       ELSE returned' = <<IsFinalRead>> /\ is_final_cache' = <<IsFinalRead>>
    /\ UNCHANGED <<terminal_message_check, treeVars, scoreVars, heapVars, mmdVars>>

NextTerminal == IsFinalGet \/ IsTerminalStep

SpecTerminal == InitTerminal /\ [][NextTerminal]_vars

LowerToken(t) ==
    CASE t \in {"TERMINAL: ", "terminal: ", "Terminal: "} -> "terminal: "
      [] t \in {"YES", "yes"} -> "yes"
      [] t \in {"NO", "no"} -> "no"
      [] OTHER -> "x"

\* The content holds "TERMINAL: " followed by the verdict, in any case.
HoldsVerdict(text, verdict) ==
    \E i \in 1..(Len(text) - 1) :
        LowerToken(text[i]) = "terminal: " /\ LowerToken(text[i + 1]) = verdict

\* C6: is_final is True whenever the content holds "TERMINAL: YES" in any
\* case (also next to a "TERMINAL: NO"), False when it holds "TERMINAL: NO"
\* and no "TERMINAL: YES", undetermined (None) when it holds neither; a value
\* is returned in every case.
C6_IsFinalByVerdict ==
    (returned # <<>> /\ terminal_message_check # <<>>) =>
        LET text == terminal_message_check[1]
        IN  /\ returned[1] \in {"True", "False", "None"}
            /\ HoldsVerdict(text, "yes") => returned[1] = "True"
            /\ (HoldsVerdict(text, "no") /\ ~HoldsVerdict(text, "yes"))
                   => returned[1] = "False"
            /\ (~HoldsVerdict(text, "no") /\ ~HoldsVerdict(text, "yes"))
                   => returned[1] = "None"

C6_Witness ==
    /\ returned = <<"True">>
    /\ is_final_cache = <<"True">>
    /\ terminal_message_check = << <<"terminal: ", "no", "Terminal: ", "yes">> >>

-----------------------------------------------------------------------------
(* Conversation.to_mmd, Conversation.from_mmd and Message.to_dict *)

Roles == {"user", "system", "assistant"}

\* Fields of Message that have a default, with the default.
FieldDefault(k) == IF k = "name" THEN NoName ELSE DefaultWeight

\* Message.model_fields
MessageFields == {"role", "content", "name", "weight"}

\* Seeded fault: model_dump(exclude_none=True), which keeps a weight of 1.
to_dict_exclude_none(message) ==
    [k \in {f \in MessageFields :
               f = "name" => message[f] # NoName} |-> message[k]]

\* Message.to_dict: model_dump(exclude_defaults=True), a mapping of the fields
\* whose value is not the default (role and content have none).
to_dict(message) ==
    [k \in {f \in MessageFields :
               f \in {"name", "weight"} => message[f] # FieldDefault(f)}
        |-> message[k]]

\* Message(**d): the fields of d, the defaults for the others.
MessageOf(d) ==
    [k \in MessageFields \cup {"type"} |->
        IF k = "type" THEN "Message"
        ELSE IF k \in DOMAIN d THEN d[k]
        ELSE FieldDefault(k)]

\* Conversation.to_mmd: a message of a subclass is first rebuilt as a Message
\* from its dump restricted to Message.model_fields.
to_mmd(msgs) ==
    [i \in 1..Len(msgs) |->
        IF msgs[i].type # "Message"
        THEN LET dump == to_dict(msgs[i])
             IN  to_dict(MessageOf([k \in DOMAIN dump \cap MessageFields |-> dump[k]]))
        ELSE to_dict(msgs[i])]

\* What model_validate checks of a mapping here: role and content are there
\* and the role is one of the three.
ValidMessageDict(d) ==
    /\ {"role", "content"} \subseteq DOMAIN d
    /\ d["role"] \in Roles

\* Conversation.from_mmd: the Conversation, or the validation error.
from_mmd(message_dicts) ==
    IF \A i \in 1..Len(message_dicts) : ValidMessageDict(message_dicts[i])
    THEN [raised |-> "none",
          messages |-> [i \in 1..Len(message_dicts) |-> MessageOf(message_dicts[i])]]
    ELSE [raised |-> "ValidationError", messages |-> <<>>]

MessagePool ==
    [type : {"Message", "ScoreMessage"},
     role : Roles,
     content : {"hi"},
     name : {NoName, "", "bob"},
     weight : {0, 1, 2}]

InitMmd ==
    /\ messages \in UNION {[1..n -> MessagePool] : n \in 0..MaxMessages}
    /\ mmd = <<>>
    /\ reloaded = <<>>
    /\ returned = <<>>
    /\ TreeIdle /\ ScoreIdle /\ TerminalIdle /\ HeapIdle

\* mmd = c.to_mmd()
ToMmd ==
    /\ mmd = <<>>
    /\ mmd' = <<to_mmd(messages)>>
    /\ UNCHANGED <<messages, reloaded, returned, treeVars, scoreVars,
                   terminalVars, heapVars>>

\* Conversation.from_mmd(mmd)
FromMmd ==
    /\ mmd # <<>>
    /\ reloaded = <<>>
    /\ reloaded' = <<from_mmd(mmd[1])>>
    /\ UNCHANGED <<messages, mmd, returned, treeVars, scoreVars,
                   terminalVars, heapVars>>

\* Conversation.from_mmd(mmd).to_mmd()
ReloadedToMmd ==
    /\ reloaded # <<>>
    /\ reloaded[1].raised = "none"
    /\ returned = <<>>
    /\ returned' = <<to_mmd(reloaded[1].messages)>>
    /\ UNCHANGED <<messages, mmd, reloaded, treeVars, scoreVars,
                   terminalVars, heapVars>>

NextMmd == ToMmd \/ FromMmd \/ ReloadedToMmd

SpecMmd == InitMmd /\ [][NextMmd]_vars

\* The conversation is built from Messages (no subclass instances).
PlainMessages == \A i \in 1..Len(messages) : messages[i].type = "Message"

\* C7: to_mmd gives one mapping per message, in order, with role and content,
\* with name only when it is set and weight only when it is not 1, and
\* from_mmd(c.to_mmd()).to_mmd() equals c.to_mmd().
C7_MinimalFormAndRoundTrip ==
    PlainMessages =>
        /\ mmd # <<>> =>
               /\ Len(mmd[1]) = Len(messages)
               /\ \A i \in 1..Len(messages) :
                      LET d == mmd[1][i]
                          m == messages[i]
                      IN  /\ {"role", "content"} \subseteq DOMAIN d
                          /\ DOMAIN d \subseteq MessageFields
                          /\ d["role"] = m.role /\ d["content"] = m.content
                          /\ "name" \in DOMAIN d <=> m.name # NoName
                          /\ "name" \in DOMAIN d => d["name"] = m.name
                          /\ "weight" \in DOMAIN d <=> m.weight # 1
                          /\ "weight" \in DOMAIN d => d["weight"] = m.weight
        /\ reloaded # <<>> => reloaded[1].raised = "none"
        /\ returned # <<>> => returned[1] = mmd[1]

C7_Witness ==
    /\ PlainMessages
    /\ returned # <<>>
    /\ Len(messages) = 2
    /\ messages[1].name = "" /\ messages[1].weight = 1
    /\ messages[2].name = NoName /\ messages[2].weight = 0
    /\ DOMAIN returned[1][1] = {"role", "content", "name"}
    /\ DOMAIN returned[1][2] = {"role", "content", "weight"}

====
